---- MODULE Spec2Model ----
(***************************************************************************)
(* Rotary-encoder block family (src/definition.js): five block schemas and *)
(* their Python emitters, driven by the editor host's generation pass.     *)
(*                                                                         *)
(* Source text is a sequence of lexemes (identifiers, numbers, single      *)
(* punctuation marks, single blanks, the line break).  A string literal of *)
(* the source is written as the sequence of its lexemes, and the source's  *)
(* string concatenation (+) is \o.                                         *)
(***************************************************************************)
EXTENDS Naturals, Sequences, FiniteSets, TLC

VARIABLES loaded,           \* the module's top-level statements have run
          RESERVED_WORDS_,  \* Blockly.Python's reserved-identifier set
          definitions_,     \* Blockly.Python.definitions_: ordered <<key, text>> entries
          pass,             \* "idle" | "generating" | "done" | "failed"
          blocks,           \* the statement blocks visited so far in this pass, in chain order
          stmts,            \* the fragments returned for them, in the same order
          error,            \* "none" | "MissingRequiredInput"
          output            \* the program text flushed at the end of the pass

vars == <<loaded, RESERVED_WORDS_, definitions_, pass, blocks, stmts, error, output>>

----------------------------------------------------------------------------
(* Bounds *)

MaxBlocks == 2      \* statement blocks chained in one pass
PinChoices == 2     \* how many of the 16 pin options the chained passes draw from
MaxOther == 1       \* preamble entries registered by other block families per pass

----------------------------------------------------------------------------
(* Lexemes *)

NL == "\n"
SP == " "

Pin(name) == <<name, ".", "pin">>

\* Concatenation of a sequence of texts.
RECURSIVE Flatten(_)
Flatten(ss) == IF ss = <<>> THEN <<>> ELSE Head(ss) \o Flatten(Tail(ss))

\* Number of occurrences of lexeme t in text s.
RECURSIVE Count(_, _)
Count(s, t) ==
  IF s = <<>> THEN 0 ELSE (IF Head(s) = t THEN 1 ELSE 0) + Count(Tail(s), t)

\* The lines of a text: the maximal runs of lexemes that a line break ends
\* (a last run with no line break after it is kept as a line of its own).
Lines(s) ==
  LET nl      == {i \in 1..Len(s) : s[i] = NL}
      n       == Cardinality(nl)
      pos(k)  == IF k = 0 THEN 0
                 ELSE CHOOSE i \in nl : Cardinality({j \in nl : j <= i}) = k
      m       == IF pos(n) < Len(s) THEN n + 1 ELSE n
      stop(k) == IF k <= n THEN pos(k) - 1 ELSE Len(s)
  IN [k \in 1..m |-> SubSeq(s, pos(k - 1) + 1, stop(k))]

----------------------------------------------------------------------------
(* Block Schema Registry: the dropdown option lists *)

CLK_OPTIONS ==
  << [label |-> "P0",  value |-> Pin("pin0")],  [label |-> "P1",  value |-> Pin("pin1")],
     [label |-> "P2",  value |-> Pin("pin2")],  [label |-> "P3",  value |-> Pin("pin3")],
     [label |-> "P4",  value |-> Pin("pin4")],  [label |-> "P6",  value |-> Pin("pin6")],
     [label |-> "P7",  value |-> Pin("pin7")],  [label |-> "P8",  value |-> Pin("pin8")],
     [label |-> "P9",  value |-> Pin("pin9")],  [label |-> "P10", value |-> Pin("pin10")],
     [label |-> "P11", value |-> Pin("pin11")], [label |-> "P12", value |-> Pin("pin12")],
     [label |-> "P13", value |-> Pin("pin13")], [label |-> "P14", value |-> Pin("pin14")],
     [label |-> "P15", value |-> Pin("pin15")], [label |-> "P16", value |-> Pin("pin16")] >>

DT_OPTIONS ==
  << [label |-> "P0",  value |-> Pin("pin0")],  [label |-> "P1",  value |-> Pin("pin1")],
     [label |-> "P2",  value |-> Pin("pin2")],  [label |-> "P3",  value |-> Pin("pin3")],
     [label |-> "P4",  value |-> Pin("pin4")],  [label |-> "P6",  value |-> Pin("pin6")],
     [label |-> "P7",  value |-> Pin("pin7")],  [label |-> "P8",  value |-> Pin("pin8")],
     [label |-> "P9",  value |-> Pin("pin9")],  [label |-> "P10", value |-> Pin("pin10")],
     [label |-> "P11", value |-> Pin("pin11")], [label |-> "P12", value |-> Pin("pin12")],
     [label |-> "P13", value |-> Pin("pin13")], [label |-> "P14", value |-> Pin("pin14")],
     [label |-> "P15", value |-> Pin("pin15")], [label |-> "P16", value |-> Pin("pin16")] >>

\* The first option's encoded value starts with a blank in the source.
MODE_OPTIONS ==
  << [label |-> "khong gioi han",
      value |-> <<SP, "RotaryIRQ", ".", "RANGE_UNBOUNDED">>],
     [label |-> "reset khi quay toi max",
      value |-> <<"RotaryIRQ", ".", "RANGE_WRAP">>],
     [label |-> "dung tang khi quay toi max",
      value |-> <<"RotaryIRQ", ".", "RANGE_BOUNDED">>] >>

----------------------------------------------------------------------------
(* Block instances, as the editor host hands them to the emitters *)

NoChild == [kind |-> "none", text |-> <<>>]

\* What can be plugged into a value input: this family's ReadValue block, or
\* a literal block of the host (an empty text, a number).
Children ==
  { [kind |-> "get_value", text |-> <<>>],
    [kind |-> "literal",   text |-> <<>>],
    [kind |-> "literal",   text |-> <<"100">>] }

InitBlock(i, j) ==
  [kind |-> "initialise_rotary_encoder",
   fields |-> [clk |-> CLK_OPTIONS[i].value, dt |-> DT_OPTIONS[j].value],
   inputs |-> <<>>]

RangeBlock(cmin, cmax) ==
  [kind |-> "set_range_value", fields |-> <<>>,
   inputs |-> [min |-> cmin, max |-> cmax]]

ModeBlock(k) ==
  [kind |-> "rotary_mode", fields |-> [mode |-> MODE_OPTIONS[k].value],
   inputs |-> <<>>]

ValueBlock(c) ==
  [kind |-> "set_current_value", fields |-> <<>>, inputs |-> [value |-> c]]

----------------------------------------------------------------------------
(* The editor host's services *)

ORDER_ATOMIC == 0
ORDER_NONE == 99

getFieldValue(block, name) == block.fields[name]

addReservedWords(reserved, word) == reserved \cup {word}

HasKey(defs, key) == \E i \in 1..Len(defs) : defs[i][1] = key

\* definitions_[key] = text on an insertion-ordered object: an existing key
\* keeps its place and takes the new text, a new key goes last.
SetDefinition(defs, key, text) ==
  IF HasKey(defs, key)
  THEN [i \in 1..Len(defs) |-> IF defs[i][1] = key THEN <<key, text>> ELSE defs[i]]
  ELSE Append(defs, <<key, text>>)

\* host.generateChildCode: the code of the block plugged into a value input,
\* given the <<code, order>> pair `tuple` its emitter returned; it fails with
\* MissingRequiredInput when nothing is plugged in, and parenthesizes a
\* child that binds weaker than the context asks for (a larger order number
\* is a weaker binding).
valueToCode(child, tuple, outerOrder) ==
  IF child.kind = "none"
  THEN [ok |-> FALSE, code |-> <<>>]
  ELSE [ok |-> TRUE,
        code |-> IF tuple.order > outerOrder
                 THEN <<"(">> \o tuple.code \o <<")">>
                 ELSE tuple.code]

\* A literal block of the host: its text, binding as an atom.
literal(defs, child) ==
  [definitions_ |-> defs, code |-> child.text, order |-> ORDER_ATOMIC]

----------------------------------------------------------------------------
(* Code Emitter Registry *)

IMPORT_ROTARY == <<"from", SP, "rotary", SP, "import", SP, "RotaryIRQ">>

\* Mutants of the import registration: one pushes a new entry on every call,
\* one registers nothing.
import_rotary_appended(defs) == Append(defs, <<"import_rotary", IMPORT_ROTARY>>)

import_rotary_dropped(defs) == defs

import_rotary(defs) == SetDefinition(defs, "import_rotary", IMPORT_ROTARY)

\* Mutant: the two dropdown values change places.
initialise_rotary_encoder_swapped(defs, block) ==
  LET dropdown_clk == getFieldValue(block, "clk")
      dropdown_dt  == getFieldValue(block, "dt")
      code == <<"rotary_encoder", SP, "=", SP, "RotaryIRQ", "(", "pin_num_clk", "=">>
              \o dropdown_dt
              \o <<",", SP, "pin_num_dt", "=">>
              \o dropdown_clk
              \o <<",", SP, "min_val", "=", "0",
                   ",", SP, "max_val", "=", "10",
                   ",", SP, "reverse", "=", "True",
                   ",", SP, "range_mode", "=", "RotaryIRQ", ".", "RANGE_UNBOUNDED",
                   ",", SP, "pull_up", "=", "False", ")", NL>>
  IN [ok |-> TRUE, definitions_ |-> import_rotary(defs), code |-> code]

initialise_rotary_encoder(defs, block) ==
  LET dropdown_clk == getFieldValue(block, "clk")
      dropdown_dt  == getFieldValue(block, "dt")
      code == <<"rotary_encoder", SP, "=", SP, "RotaryIRQ", "(", "pin_num_clk", "=">>
              \o dropdown_clk
              \o <<",", SP, "pin_num_dt", "=">>
              \o dropdown_dt
              \o <<",", SP, "min_val", "=", "0",
                   ",", SP, "max_val", "=", "10",
                   ",", SP, "reverse", "=", "True",
                   ",", SP, "range_mode", "=", "RotaryIRQ", ".", "RANGE_UNBOUNDED",
                   ",", SP, "pull_up", "=", "False", ")", NL>>
  IN [ok |-> TRUE, definitions_ |-> import_rotary(defs), code |-> code]

\* Mutant: ReadValue registers the import as InitEncoder does.
get_value_importing(defs, block) ==
  LET code == <<"rotary_encoder", ".", "value", "(", ")">>
  IN [definitions_ |-> import_rotary(defs), code |-> code, order |-> ORDER_NONE]

get_value(defs, block) ==
  LET code == <<"rotary_encoder", ".", "value", "(", ")">>
  IN [definitions_ |-> defs, code |-> code, order |-> ORDER_NONE]

\* The host's dispatch on the kind of a plugged-in block.
blockToCode(defs, child) ==
  IF child.kind = "get_value" THEN get_value(defs, child) ELSE literal(defs, child)

\* Blockly.Python.valueToCode(block, name, order) as the emitters call it:
\* the child's emitter runs first, then the host wraps its code.
childCode(defs, block, name, outerOrder) ==
  LET child == block.inputs[name]
      tuple == blockToCode(defs, child)
      res   == valueToCode(child, tuple, outerOrder)
  IN [ok |-> res.ok, code |-> res.code,
      definitions_ |-> IF res.ok THEN tuple.definitions_ ELSE defs]

\* Mutant: min and max change places in the statement.
set_range_value_swapped(defs, block) ==
  LET value_min == childCode(defs, block, "min", ORDER_ATOMIC)
      value_max == childCode(value_min.definitions_, block, "max", ORDER_ATOMIC)
      code == <<"rotary_encoder", ".", "set", "(", "min_val", "=">>
              \o value_max.code
              \o <<",", SP, "max_val", "=">>
              \o value_min.code
              \o <<",", SP, "range_mode", "=", "RotaryIRQ", ".", "RANGE_WRAP", ")", NL>>
  IN IF ~value_min.ok THEN [ok |-> FALSE, definitions_ |-> defs, code |-> <<>>]
     ELSE IF ~value_max.ok
     THEN [ok |-> FALSE, definitions_ |-> value_min.definitions_, code |-> <<>>]
     ELSE [ok |-> TRUE, definitions_ |-> value_max.definitions_, code |-> code]

set_range_value(defs, block) ==
  LET value_min == childCode(defs, block, "min", ORDER_ATOMIC)
      value_max == childCode(value_min.definitions_, block, "max", ORDER_ATOMIC)
      code == <<"rotary_encoder", ".", "set", "(", "min_val", "=">>
              \o value_min.code
              \o <<",", SP, "max_val", "=">>
              \o value_max.code
              \o <<",", SP, "range_mode", "=", "RotaryIRQ", ".", "RANGE_WRAP", ")", NL>>
  IN IF ~value_min.ok THEN [ok |-> FALSE, definitions_ |-> defs, code |-> <<>>]
     ELSE IF ~value_max.ok
     THEN [ok |-> FALSE, definitions_ |-> value_min.definitions_, code |-> <<>>]
     ELSE [ok |-> TRUE, definitions_ |-> value_max.definitions_, code |-> code]

\* Mutant: the statement lacks its line break.
rotary_mode_unterminated(defs, block) ==
  LET dropdown_mode == getFieldValue(block, "mode")
      code == <<"rotary_encoder", ".", "set", "(", "range_mode", "=">>
              \o dropdown_mode
              \o <<")">>
  IN [ok |-> TRUE, definitions_ |-> defs, code |-> code]

rotary_mode(defs, block) ==
  LET dropdown_mode == getFieldValue(block, "mode")
      code == <<"rotary_encoder", ".", "set", "(", "range_mode", "=">>
              \o dropdown_mode
              \o <<")", NL>>
  IN [ok |-> TRUE, definitions_ |-> defs, code |-> code]

\* Mutant: an empty resolved child is treated as a missing one.
set_current_value_rejecting_empty(defs, block) ==
  LET value_value == childCode(defs, block, "value", ORDER_ATOMIC)
      code == <<"rotary_encoder", ".", "set", "(", "value", "=">>
              \o value_value.code
              \o <<")", NL>>
  IN IF ~value_value.ok \/ value_value.code = <<>>
     THEN [ok |-> FALSE, definitions_ |-> defs, code |-> <<>>]
     ELSE [ok |-> TRUE, definitions_ |-> value_value.definitions_, code |-> code]

set_current_value(defs, block) ==
  LET value_value == childCode(defs, block, "value", ORDER_ATOMIC)
      code == <<"rotary_encoder", ".", "set", "(", "value", "=">>
              \o value_value.code
              \o <<")", NL>>
  IN IF ~value_value.ok THEN [ok |-> FALSE, definitions_ |-> defs, code |-> <<>>]
     ELSE [ok |-> TRUE, definitions_ |-> value_value.definitions_, code |-> code]

----------------------------------------------------------------------------
(* The generation pass *)

OTHER_ENTRIES ==
  << <<"import_machine", <<"from", SP, "machine", SP, "import", SP, "Pin">> >>,
     <<"import_time",    <<"import", SP, "time">> >>,
     <<"import_yolobit", <<"from", SP, "yolobit", SP, "import", SP, "*">> >> >>

NumOther(defs) ==
  Cardinality({i \in 1..Len(defs) : defs[i][1] # "import_rotary"})

\* The flushed program: every preamble entry on a line of its own, in
\* first-registered order, then the statement fragments as they are.
finish(defs, code) ==
  Flatten([i \in 1..Len(defs) |-> defs[i][2] \o <<NL>>]) \o Flatten(code)

Init ==
  /\ loaded = FALSE
  /\ RESERVED_WORDS_ = {}
  /\ definitions_ = <<>>
  /\ pass = "idle"
  /\ blocks = <<>>
  /\ stmts = <<>>
  /\ error = "none"
  /\ output = <<>>

LoadModule ==
  /\ ~loaded
  /\ loaded' = TRUE
  /\ RESERVED_WORDS_' = addReservedWords(RESERVED_WORDS_, "rotary")
  /\ UNCHANGED <<definitions_, pass, blocks, stmts, error, output>>

StartPass ==
  /\ loaded
  /\ pass \in {"idle", "done", "failed"}
  /\ pass' = "generating"
  /\ definitions_' = <<>>
  /\ blocks' = <<>>
  /\ stmts' = <<>>
  /\ error' = "none"
  /\ output' = <<>>
  /\ UNCHANGED <<loaded, RESERVED_WORDS_>>

\* The host visits the next chained block b, whose emitter returned r.
Visit(b, r) ==
  /\ pass = "generating"
  /\ Len(blocks) < MaxBlocks
  /\ blocks' = Append(blocks, b)
  /\ definitions_' = r.definitions_
  /\ IF r.ok
     THEN /\ stmts' = Append(stmts, r.code)
          /\ UNCHANGED <<pass, error>>
     ELSE /\ pass' = "failed"
          /\ error' = "MissingRequiredInput"
          /\ UNCHANGED stmts
  /\ UNCHANGED <<loaded, RESERVED_WORDS_, output>>

EmitInit ==
  \E i \in 1..PinChoices, j \in 1..PinChoices :
    LET b == InitBlock(i, j) IN Visit(b, initialise_rotary_encoder(definitions_, b))

EmitRange ==
  \E cmin \in Children \cup {NoChild}, cmax \in Children \cup {NoChild} :
    LET b == RangeBlock(cmin, cmax) IN Visit(b, set_range_value(definitions_, b))

EmitMode ==
  \E k \in 1..Len(MODE_OPTIONS) :
    LET b == ModeBlock(k) IN Visit(b, rotary_mode(definitions_, b))

EmitValue ==
  \E c \in Children \cup {NoChild} :
    LET b == ValueBlock(c) IN Visit(b, set_current_value(definitions_, b))

\* A block of another family registers its own preamble entry (the entries
\* come in the order of OTHER_ENTRIES).
OtherPreamble ==
  /\ pass = "generating"
  /\ NumOther(definitions_) < MaxOther
  /\ \E n \in 1..Len(OTHER_ENTRIES) :
       /\ n = NumOther(definitions_) + 1
       /\ definitions_' = SetDefinition(definitions_, OTHER_ENTRIES[n][1], OTHER_ENTRIES[n][2])
  /\ UNCHANGED <<loaded, RESERVED_WORDS_, pass, blocks, stmts, error, output>>

Finish ==
  /\ pass = "generating"
  /\ pass' = "done"
  /\ output' = finish(definitions_, stmts)
  /\ UNCHANGED <<loaded, RESERVED_WORDS_, definitions_, blocks, stmts, error>>

Next ==
  \/ LoadModule
  \/ StartPass
  \/ EmitInit
  \/ EmitRange
  \/ EmitMode
  \/ EmitValue
  \/ OtherPreamble
  \/ Finish

Spec == Init /\ [][Next]_vars

----------------------------------------------------------------------------
(* One InitEncoder block per pass, over every pair of pin options *)

EmitInitAny ==
  /\ blocks = <<>>
  /\ \E i \in 1..Len(CLK_OPTIONS), j \in 1..Len(DT_OPTIONS) :
       LET b == InitBlock(i, j) IN Visit(b, initialise_rotary_encoder(definitions_, b))

NextPins ==
  \/ LoadModule
  \/ StartPass
  \/ EmitInitAny
  \/ Finish

SpecPins == Init /\ [][NextPins]_vars

----------------------------------------------------------------------------
(* Properties *)

IsInit(b)  == b.kind = "initialise_rotary_encoder"
IsRange(b) == b.kind = "set_range_value"
IsMode(b)  == b.kind = "rotary_mode"
IsValue(b) == b.kind = "set_current_value"

InitEmitted == \E i \in 1..Len(blocks) : IsInit(blocks[i])

\* The kind of statement a line of the program is, read off its lexemes.
LineKind(line) ==
  IF Len(line) < 5 THEN "unknown"
  ELSE IF line[3] = "=" /\ line[5] = "RotaryIRQ" THEN "initialise_rotary_encoder"
  ELSE IF line[3] # "set" THEN "unknown"
  ELSE IF line[5] = "min_val" THEN "set_range_value"
  ELSE IF line[5] = "range_mode" THEN "rotary_mode"
  ELSE IF line[5] = "value" THEN "set_current_value"
  ELSE "unknown"

ImportLines(ls) == {i \in 1..Len(ls) : ls[i] = IMPORT_ROTARY}

\* C1: a finished pass over N chained blocks yields the preamble lines first
\* (the import once, when an InitEncoder block was visited) and then exactly
\* N lines, each ended by a line break, one per block in chain order.
C1_ProgramLayout ==
  pass = "done" =>
    LET ls == Lines(output)
        P  == Len(definitions_)
        N  == Len(blocks)
    IN /\ Count(output, NL) = P + N
       /\ Len(ls) = P + N
       /\ InitEmitted => /\ Cardinality(ImportLines(ls)) = 1
                         /\ \A i \in ImportLines(ls) : i <= P
       /\ \A i \in 1..N :
            /\ LineKind(ls[P + i]) = blocks[i].kind
            /\ ls[P + i][1] = "rotary_encoder"
            /\ IsInit(blocks[i]) => SubSeq(ls[P + i], 9, 11) = blocks[i].fields.clk
            /\ IsMode(blocks[i]) =>
                 SubSeq(ls[P + i], 7, Len(ls[P + i]) - 1) = blocks[i].fields.mode

C1_Witness ==
  /\ pass = "done"
  /\ Len(blocks) = 2
  /\ IsMode(blocks[1])
  /\ IsInit(blocks[2])
  /\ Len(definitions_) = 2

\* C2: once one or more InitEncoder blocks were visited in a pass, the
\* preamble set holds exactly one import entry, and the flushed program has
\* the import line exactly once.
C2_SingleImport ==
  InitEmitted =>
    /\ Cardinality({i \in 1..Len(definitions_) : definitions_[i][1] = "import_rotary"}) = 1
    /\ Cardinality({i \in 1..Len(definitions_) : definitions_[i][2] = IMPORT_ROTARY}) = 1
    /\ pass = "done" => Cardinality(ImportLines(Lines(output))) = 1

C2_Witness ==
  /\ pass = "done"
  /\ Len(blocks) = 2
  /\ IsInit(blocks[1])
  /\ IsInit(blocks[2])
  /\ blocks[1].fields.clk # blocks[2].fields.clk

READ_CALL == <<"rotary_encoder", ".", "value", "(", ")">>

\* C3: ReadValue is tagged atomic, and plugged into SetValue it is
\* substituted as the bare read call, with no parentheses around it.
C3_ReadValueInline ==
  \A i \in 1..Len(stmts) :
    (IsValue(blocks[i]) /\ blocks[i].inputs.value.kind = "get_value") =>
      /\ get_value(definitions_, blocks[i].inputs.value).order = ORDER_ATOMIC
      /\ stmts[i] = <<"rotary_encoder", ".", "set", "(", "value", "=">>
                    \o READ_CALL \o <<")", NL>>

\* C4: the InitEncoder statement binds the handle to a constructor call with
\* the chosen clk value as pin_num_clk, the chosen dt value as pin_num_dt,
\* and the fixed defaults after them.
C4_InitArguments ==
  \A i \in 1..Len(stmts) :
    IsInit(blocks[i]) =>
      LET st == stmts[i] IN
      /\ Len(st) = 47
      /\ SubSeq(st, 1, 8) =
           <<"rotary_encoder", SP, "=", SP, "RotaryIRQ", "(", "pin_num_clk", "=">>
      /\ SubSeq(st, 9, 11) = blocks[i].fields.clk
      /\ SubSeq(st, 12, 15) = <<",", SP, "pin_num_dt", "=">>
      /\ SubSeq(st, 16, 18) = blocks[i].fields.dt
      /\ SubSeq(st, 19, 47) =
           <<",", SP, "min_val", "=", "0",
             ",", SP, "max_val", "=", "10",
             ",", SP, "reverse", "=", "True",
             ",", SP, "range_mode", "=", "RotaryIRQ", ".", "RANGE_UNBOUNDED",
             ",", SP, "pull_up", "=", "False", ")", NL>>

C4_Witness ==
  /\ Len(stmts) = 1
  /\ IsInit(blocks[1])
  /\ blocks[1].fields.clk = Pin("pin16")
  /\ blocks[1].fields.dt = Pin("pin0")

RANGE_MODES ==
  { <<"RotaryIRQ", ".", "RANGE_UNBOUNDED">>,
    <<"RotaryIRQ", ".", "RANGE_WRAP">>,
    <<"RotaryIRQ", ".", "RANGE_BOUNDED">> }

\* C5: the mode a SetMode block carries is one of the three range-mode
\* constants and nothing more, and the statement is a set call whose only
\* argument is range_mode with that constant.
C5_ModeConstant ==
  \A i \in 1..Len(stmts) :
    IsMode(blocks[i]) =>
      /\ blocks[i].fields.mode \in RANGE_MODES
      /\ stmts[i] = <<"rotary_encoder", ".", "set", "(", "range_mode", "=">>
                    \o blocks[i].fields.mode \o <<")", NL>>

\* The text a plugged-in child resolves to in an emitter of this family.
Resolved(child) ==
  IF child.kind = "get_value" THEN <<"(">> \o READ_CALL \o <<")">> ELSE child.text

\* C6: SetRange emits min_val then max_val with the resolved children and
\* always the wrap constant, whatever SetMode or InitEncoder blocks stand
\* before or after it.
C6_RangeStatement ==
  \A i \in 1..Len(stmts) :
    IsRange(blocks[i]) =>
      stmts[i] = <<"rotary_encoder", ".", "set", "(", "min_val", "=">>
                 \o Resolved(blocks[i].inputs.min)
                 \o <<",", SP, "max_val", "=">>
                 \o Resolved(blocks[i].inputs.max)
                 \o <<",", SP, "range_mode", "=", "RotaryIRQ", ".", "RANGE_WRAP", ")", NL>>

C6_Witness ==
  /\ Len(stmts) = 2
  /\ IsMode(blocks[1])
  /\ blocks[1].fields.mode = <<"RotaryIRQ", ".", "RANGE_BOUNDED">>
  /\ IsRange(blocks[2])
  /\ blocks[2].inputs.min.text = <<"100">>
  /\ blocks[2].inputs.max.kind = "get_value"

HasHole(b) ==
  \/ IsRange(b) /\ (b.inputs.min.kind = "none" \/ b.inputs.max.kind = "none")
  \/ IsValue(b) /\ b.inputs.value.kind = "none"

EmptyLiteral(c) == c.kind = "literal" /\ c.text = <<>>

\* C7: a SetRange or SetValue block with nothing plugged into a value input
\* fails the pass with MissingRequiredInput and adds no statement; a
\* plugged-in child that resolves to the empty text raises nothing and the
\* statement is emitted with an empty argument.
C7_MissingInput ==
  /\ \A i \in 1..Len(blocks) :
       HasHole(blocks[i]) =>
         /\ i = Len(blocks)
         /\ pass = "failed"
         /\ error = "MissingRequiredInput"
         /\ Len(stmts) = i - 1
         /\ output = <<>>
  /\ error # "none" => (blocks # <<>> /\ HasHole(blocks[Len(blocks)]))
  /\ \A i \in 1..Len(blocks) :
       /\ (IsValue(blocks[i]) /\ EmptyLiteral(blocks[i].inputs.value)) =>
            /\ i <= Len(stmts)
            /\ stmts[i] = <<"rotary_encoder", ".", "set", "(", "value", "=", ")", NL>>
       /\ (IsRange(blocks[i]) /\ EmptyLiteral(blocks[i].inputs.min)
                              /\ EmptyLiteral(blocks[i].inputs.max)) =>
            /\ i <= Len(stmts)
            /\ SubSeq(stmts[i], 1, 10) =
                 <<"rotary_encoder", ".", "set", "(", "min_val", "=",
                   ",", SP, "max_val", "=">>

C7_Witness ==
  /\ Len(blocks) = 2
  /\ IsValue(blocks[1])
  /\ EmptyLiteral(blocks[1].inputs.value)
  /\ IsRange(blocks[2])
  /\ blocks[2].inputs.min.kind = "literal"
  /\ blocks[2].inputs.max.kind = "none"
  /\ pass = "failed"

\* C8: every handle an emitted fragment assigns to or calls a method on is
\* in the reserved-identifier set that module load filled.
C8_HandleReserved ==
  loaded => \A i \in 1..Len(stmts) : stmts[i][1] \in RESERVED_WORDS_

OtherEntries(defs) == SelectSeq(defs, LAMBDA e : e[1] # "import_rotary")

\* C9: visiting a SetRange, SetMode or SetValue block (with or without a
\* ReadValue child) leaves the preamble set and the reserved identifiers as
\* they were; visiting an InitEncoder block changes only the import entry.
C9_Frame ==
  [][ Len(blocks') = Len(blocks) + 1 =>
        /\ RESERVED_WORDS_' = RESERVED_WORDS_
        /\ IF IsInit(blocks'[Len(blocks')])
           THEN /\ OtherEntries(definitions_') = OtherEntries(definitions_)
                /\ Len(definitions_') =
                     Len(definitions_) + (IF HasKey(definitions_, "import_rotary") THEN 0 ELSE 1)
                /\ \A k \in 1..Len(definitions_) : definitions_'[k][1] = definitions_[k][1]
           ELSE definitions_' = definitions_ ]_vars

C9_Witness ==
  /\ Len(stmts) = 2
  /\ IsValue(blocks[1])
  /\ blocks[1].inputs.value.kind = "get_value"
  /\ IsInit(blocks[2])
  /\ Len(definitions_) = 2
  /\ definitions_[1][1] = "import_machine"
  /\ definitions_[2][1] = "import_rotary"

UsesRotaryIRQ == \E i \in 1..Len(stmts) : Count(stmts[i], "RotaryIRQ") > 0

\* C10 as stated: a finished program with a statement that names RotaryIRQ
\* has the import line, also when no InitEncoder block is in it.
C10_ImportWheneverUsed ==
  (pass = "done" /\ UsesRotaryIRQ) => ImportLines(Lines(output)) # {}

\* C10 as amended: a finished program has the import line exactly when an
\* InitEncoder block was visited; SetRange and SetMode name RotaryIRQ
\* without bringing the import.
C10_ImportOnlyWithInit ==
  pass = "done" => (ImportLines(Lines(output)) # {} <=> InitEmitted)

C10_Witness ==
  /\ pass = "done"
  /\ UsesRotaryIRQ
  /\ InitEmitted
  /\ Len(blocks) = 2
  /\ IsRange(blocks[1])
  /\ ImportLines(Lines(output)) # {}

====
